---- MODULE Spec2Model ----
(***************************************************************************)
(* Graph store, resilience analysis and preferential attachment of the     *)
(* Networks repository ("graph resilience/tools.py" and "degree            *)
(* distribution/tools.py").                                                *)
(*                                                                         *)
(* A Python dict of sets is a pair: a function from node to the identity   *)
(* of a set object, and a heap from identity to the set's contents, so     *)
(* that sharing of set objects between two dicts is expressible.           *)
(***************************************************************************)
EXTENDS Integers, Sequences, FiniteSets

VARIABLES
    ugraph,            \* the caller's graph / upa_graph: node -> set object id
    heap,              \* set object id -> contents of the set object
    failed,            \* a graph-store call of the caller raised
    call,              \* the graph-store call the caller made last
    pc,                \* position of the running call ("idle": none running)
    status,            \* per function: "new", "running", "returned", "raised"
    graph,             \* local `graph` of the running call: node -> id
    graph_keys,        \* enumeration order of the keys of `graph`
    seq,               \* local `seq` of targeted_order / fast_targeted_order
    degree_sets,       \* fast_targeted_order: degree -> bucket
    degree,            \* fast_targeted_order: the loop variable `degree`
    drained,           \* nodes popped in the current iteration of the for loop
    attack_order,      \* compute_resilience: the argument
    idx,               \* compute_resilience: entries of attack_order consumed
    ranking,           \* compute_resilience: local `ranking`
    nodes,             \* cc_visited: local `nodes`
    components,        \* cc_visited: local `components`
    start_node,        \* cc_visited: local `start_node`
    myqueue,           \* bfs_visited: local `myqueue`
    visited,           \* bfs_visited: local `visited`
    result,            \* per function: the value returned
    original,          \* the caller's graph, by value, before any call
    algorithm,         \* "dpa" or "upa"
    initial_size,      \* argument of dpa_algorithm / upa_algorithm
    end_size,          \* argument of dpa_algorithm / upa_algorithm
    new_node,          \* loop variable of the growth loop
    node_numbers,      \* the node pool: node -> number of copies in the list
    dpa_graph          \* dpa_algorithm: node -> set of out-neighbors

storeVars == <<ugraph, heap, failed, call>>
callVars == <<pc, status, graph, graph_keys, seq, degree_sets, degree, drained,
              attack_order, idx, ranking, nodes, components, start_node,
              myqueue, visited, result, original>>
paVars == <<algorithm, initial_size, end_size, new_node, node_numbers, dpa_graph>>
vars == <<storeVars, callVars, paVars>>

\* Node identifiers are drawn from 0 .. MaxNodes-1.
MaxNodes == 3
\* Largest end_size / initial_size tried for the attachment algorithms.
MaxSize == 4

NodeIds == 0 .. (MaxNodes - 1)

----------------------------------------------------------------------------
\* Helpers

Put(f, k, v) == [x \in (DOMAIN f) \cup {k} |-> IF x = k THEN v ELSE f[x]]

Drop(f, k) == [x \in (DOMAIN f) \ {k} |-> f[x]]

Range(s) == {s[i] : i \in DOMAIN s}

\* All enumerations of a finite set: the orders in which iteration may visit it.
Enumerations(S) ==
    {e \in [1 .. Cardinality(S) -> S] : \A i, j \in 1 .. Cardinality(S) : e[i] = e[j] => i = j}

EmptyMap == [x \in {} |-> {}]

\* A dict of sets read by value: node -> contents of its set.
GraphView(d, hp) == [nd \in DOMAIN d |-> hp[d[nd]]]

\* Undirected graphs by value on a node set.
IsSymmetric(g) == \A a \in DOMAIN g : \A b \in g[a] : b \in DOMAIN g /\ a \in g[b]

NoSelfLoops(g) == \A a \in DOMAIN g : a \notin g[a]

Closed(g) == \A a \in DOMAIN g : g[a] \subseteq DOMAIN g

UGraphsOn(V) == {g \in [V -> SUBSET V] : IsSymmetric(g) /\ NoSelfLoops(g)}

UGraphs == UNION {UGraphsOn(V) : V \in SUBSET NodeIds}

----------------------------------------------------------------------------
\* Graph store ("graph resilience/tools.py")

\* The identity of the set object copy_graph allocates for `node`.
NewSetId(node) == 0 - (node + 1)

\* copy_graph as dict(ugraph): a new dict holding the same set objects.
copy_graph_shared(ug, hp) == [graph |-> ug, heap |-> hp]

\* copy_graph: a new dict whose values are new set objects, set(ugraph[node]).
copy_graph(ug, hp) ==
    [graph |-> [node \in DOMAIN ug |-> NewSetId(node)],
     heap |-> [o \in (DOMAIN hp) \cup {NewSetId(node) : node \in DOMAIN ug} |->
                 IF \E node \in DOMAIN ug : o = NewSetId(node)
                 THEN hp[ug[CHOOSE node \in DOMAIN ug : o = NewSetId(node)]]
                 ELSE hp[o]]]

\* The set objects a dict refers to.
Refs(d) == {d[nd] : nd \in DOMAIN d}

\* The set objects outside `live` are no longer referred to and are dropped.
Collect(hp, live) == [o \in live \cap DOMAIN hp |-> hp[o]]

\* The loop of add_node, visiting `neighbors` in the order iter from index i.
RECURSIVE add_loop(_, _, _, _, _)
add_loop(ug, hp, node, iter, i) ==
    IF i > Len(iter) THEN [ugraph |-> ug, heap |-> hp, raised |-> FALSE]
    ELSE IF iter[i] \notin DOMAIN ug
         THEN [ugraph |-> ug, heap |-> hp, raised |-> TRUE]
         ELSE add_loop(ug, [hp EXCEPT ![ug[iter[i]]] = @ \cup {node}], node, iter, i + 1)

\* add_node without its loop: the neighbors do not get node back.
add_node_one_way(ug, hp, node, nid, neighbors, iter) ==
    [ugraph |-> Put(ug, node, nid), heap |-> Put(hp, nid, neighbors), raised |-> FALSE]

\* add_node(ugraph, node, neighbors): nid is the identity of the set object
\* `neighbors`, which becomes ugraph[node] itself.
add_node(ug, hp, node, nid, neighbors, iter) ==
    add_loop(Put(ug, node, nid), Put(hp, nid, neighbors), node, iter, 1)

\* The loop of delete_node, visiting the removed node's set in the order iter.
RECURSIVE delete_loop(_, _, _, _, _)
delete_loop(ug, hp, node, iter, i) ==
    IF i > Len(iter) THEN [ugraph |-> ug, heap |-> hp, raised |-> FALSE]
    ELSE IF iter[i] \notin DOMAIN ug \/ node \notin hp[ug[iter[i]]]
         THEN [ugraph |-> ug, heap |-> hp, raised |-> TRUE]
         ELSE delete_loop(ug, [hp EXCEPT ![ug[iter[i]]] = @ \ {node}], node, iter, i + 1)

\* delete_node without its loop: the neighbors keep node in their sets.
delete_node_keep_back_edges(ug, hp, node, iter) ==
    IF node \notin DOMAIN ug
    THEN [ugraph |-> ug, heap |-> hp, raised |-> TRUE]
    ELSE [ugraph |-> Drop(ug, node), heap |-> hp, raised |-> FALSE]

\* delete_node(ugraph, node)
delete_node(ug, hp, node, iter) ==
    IF node \notin DOMAIN ug
    THEN [ugraph |-> ug, heap |-> hp, raised |-> TRUE]
    ELSE delete_loop(Drop(ug, node), hp, node, iter, 1)

\* The orders in which delete_node may visit the neighbors of node.
DeleteOrders(ug, hp, node) ==
    Enumerations(IF node \in DOMAIN ug THEN hp[ug[node]] ELSE {})

----------------------------------------------------------------------------
\* The caller mutating its own graph with add_node and delete_node.

\* add_node is documented to add a node "with 0 or more existing adjacent
\* nodes": the node is new and is not one of its own neighbors.
InContract(node, neighbors) == node \notin DOMAIN ugraph /\ node \notin neighbors

NoCall == [op |-> "none", node |-> 0, misuse |-> FALSE]

\* No resilience call and no attachment run is in progress.
CallsIdle ==
    /\ pc = "idle"
    /\ status = [f \in {} |-> "new"]
    /\ graph = EmptyMap /\ graph_keys = <<>> /\ seq = <<>>
    /\ degree_sets = <<>> /\ degree = 0 /\ drained = 0
    /\ attack_order = <<>> /\ idx = 0 /\ ranking = <<>>
    /\ nodes = {} /\ components = <<>> /\ start_node = 0
    /\ myqueue = <<>> /\ visited = <<>>
    /\ result = [f \in {} |-> <<>>]
    /\ original = EmptyMap

AttachmentIdle ==
    /\ algorithm = "none" /\ initial_size = 0 /\ end_size = 0 /\ new_node = 0
    /\ node_numbers = [x \in {} |-> 0] /\ dpa_graph = EmptyMap

\* The caller's dict holds, for node nd, the set object of identity nd.
StoreOf(g) ==
    /\ ugraph = [nd \in DOMAIN g |-> nd]
    /\ heap = [o \in DOMAIN g |-> g[o]]

StoreInit ==
    /\ \E g \in UGraphs : StoreOf(g)
    /\ failed = FALSE
    /\ call = NoCall
    /\ CallsIdle
    /\ AttachmentIdle

\* The caller makes any call; after a call that raised, or an add_node call
\* outside its contract, it makes no further call.
AddNode ==
    /\ ~failed /\ ~call.misuse
    /\ \E node \in NodeIds, neighbors \in SUBSET NodeIds :
         \E iter \in Enumerations(neighbors) :
           LET r == add_node(ugraph, heap, node, node, neighbors, iter) IN
             /\ ugraph' = r.ugraph
             /\ heap' = Collect(r.heap, Refs(r.ugraph))
             /\ failed' = r.raised
             /\ call' = [op |-> "add_node", node |-> node,
                         misuse |-> ~InContract(node, neighbors)]
    /\ UNCHANGED <<callVars, paVars>>

DeleteNode ==
    /\ ~failed /\ ~call.misuse
    /\ \E node \in NodeIds :
         \E iter \in DeleteOrders(ugraph, heap, node) :
           LET r == delete_node(ugraph, heap, node, iter) IN
             /\ ugraph' = r.ugraph
             /\ heap' = Collect(r.heap, Refs(r.ugraph))
             /\ failed' = r.raised
             /\ call' = [op |-> "delete_node", node |-> node, misuse |-> FALSE]
    /\ UNCHANGED <<callVars, paVars>>

StoreNext == AddNode \/ DeleteNode

SpecStore == StoreInit /\ [][StoreNext]_vars

\* The caller's graph by value.
Store == GraphView(ugraph, heap)

GoodStore == IsSymmetric(Store) /\ NoSelfLoops(Store) /\ Closed(Store)

----------------------------------------------------------------------------
\* Calls of targeted_order, fast_targeted_order, compute_resilience and
\* largest_cc_size on the caller's graph.  The program is single-threaded: one
\* call runs at a time.

Functions == {"targeted_order", "fast_targeted_order", "compute_resilience",
              "largest_cc_size"}

\* The call sequences explored: compute_resilience alone, largest_cc_size
\* alone, or the two attack orders on the same graph, each function called at
\* most once.
CanCall(f) ==
    /\ pc = "idle"
    /\ status[f] = "new"
    /\ IF f \in {"compute_resilience", "largest_cc_size"}
       THEN \A h \in Functions : status[h] = "new"
       ELSE status["compute_resilience"] = "new" /\ status["largest_cc_size"] = "new"

\* The function whose call is running.
Running == CHOOSE f \in Functions : status[f] = "running"

NoLocals ==
    /\ graph' = EmptyMap /\ graph_keys' = <<>> /\ seq' = <<>>
    /\ degree_sets' = <<>> /\ degree' = 0 /\ drained' = 0
    /\ idx' = 0 /\ ranking' = <<>>
    /\ nodes' = {} /\ components' = <<>> /\ start_node' = 0
    /\ myqueue' = <<>> /\ visited' = <<>>

\* The running call f ends: by returning value, or by raising.  The locals
\* die; the caller keeps the argument it passed.
Finish(f, how, value, hp) ==
    /\ pc' = "idle"
    /\ status' = [status EXCEPT ![f] = how]
    /\ result' = [result EXCEPT ![f] = value]
    /\ heap' = Collect(hp, Refs(ugraph))
    /\ NoLocals
    /\ UNCHANGED attack_order

CallInit ==
    /\ \E g \in UGraphs : StoreOf(g) /\ original = g
    /\ failed = FALSE
    /\ call = NoCall
    /\ pc = "idle"
    /\ status = [f \in Functions |-> "new"]
    /\ result = [f \in Functions |-> <<>>]
    /\ graph = EmptyMap /\ graph_keys = <<>> /\ seq = <<>>
    /\ degree_sets = <<>> /\ degree = 0 /\ drained = 0
    /\ attack_order = <<>> /\ idx = 0 /\ ranking = <<>>
    /\ nodes = {} /\ components = <<>> /\ start_node = 0
    /\ myqueue = <<>> /\ visited = <<>>
    /\ AttachmentIdle

frame == <<ugraph, failed, call, original, paVars>>

\* The local `graph` by value.
Working == GraphView(graph, heap)

\* targeted_order

\* max(graph, key=graph.get): the keys are visited in enumeration order and
\* the values compared are the neighbor sets, for which > is proper superset.
RECURSIVE py_max(_, _, _, _)
py_max(keys, g, best, i) ==
    IF i > Len(keys) THEN best
    ELSE IF g[best] \subseteq g[keys[i]] /\ g[best] # g[keys[i]]
         THEN py_max(keys, g, keys[i], i + 1)
         ELSE py_max(keys, g, best, i + 1)

max_degree_node(keys, g) == py_max(keys, g, keys[1], 2)

SelectSeq1(s, x) == SelectSeq(s, LAMBDA y : y # x)

CallTargetedOrder ==
    /\ CanCall("targeted_order")
    /\ \E keys \in Enumerations(DOMAIN ugraph) :
         LET c == copy_graph(ugraph, heap) IN
           /\ graph' = c.graph
           /\ heap' = c.heap
           /\ graph_keys' = keys
    /\ seq' = <<>>
    /\ pc' = "targeted_order"
    /\ status' = [status EXCEPT !["targeted_order"] = "running"]
    /\ UNCHANGED <<degree_sets, degree, drained, attack_order, idx, ranking, nodes,
                   components, start_node, myqueue, visited, result>>
    /\ UNCHANGED frame

\* One iteration of `while graph`.
TargetedOrderStep ==
    /\ pc = "targeted_order"
    /\ DOMAIN graph # {}
    /\ LET node == max_degree_node(graph_keys, Working) IN
         \E iter \in DeleteOrders(graph, heap, node) :
           LET r == delete_node(graph, heap, node, iter) IN
             IF r.raised
             THEN Finish("targeted_order", "raised", <<>>, r.heap)
             ELSE /\ seq' = Append(seq, node)
                  /\ graph' = r.ugraph
                  /\ heap' = Collect(r.heap, Refs(ugraph) \cup Refs(r.ugraph))
                  /\ graph_keys' = SelectSeq1(graph_keys, node)
                  /\ UNCHANGED <<pc, status, degree_sets, degree, drained, attack_order,
                                 idx, ranking, nodes, components, start_node, myqueue,
                                 visited, result>>
    /\ UNCHANGED frame

TargetedOrderReturn ==
    /\ pc = "targeted_order"
    /\ DOMAIN graph = {}
    /\ Finish("targeted_order", "returned", seq, heap)
    /\ UNCHANGED frame

\* fast_targeted_order

\* degree_sets after lines 163-166: one bucket per k in range(len(graph)).
initial_degree_sets(g) ==
    [k \in 0 .. (Cardinality(DOMAIN g) - 1) |-> {nd \in DOMAIN g : Cardinality(g[nd]) = k}]

\* degree_sets[k] for a Python list index k: -1 is the last bucket.
BucketIndex(sets, k) == IF k < 0 THEN k + Cardinality(DOMAIN sets) ELSE k

\* demote_loop without line 175: the neighbor leaves its bucket and enters none.
RECURSIVE demote_loop_lose_neighbor(_, _, _, _)
demote_loop_lose_neighbor(sets, g, iter, i) ==
    IF i > Len(iter) THEN [sets |-> sets, raised |-> FALSE]
    ELSE IF iter[i] \notin DOMAIN g
         THEN [sets |-> sets, raised |-> TRUE]
         ELSE LET neighbor == iter[i]
                  degree_pop_node == Cardinality(g[neighbor])
              IN IF \/ degree_pop_node \notin DOMAIN sets
                    \/ neighbor \notin sets[degree_pop_node]
                 THEN [sets |-> sets, raised |-> TRUE]
                 ELSE demote_loop_lose_neighbor(
                        [sets EXCEPT ![degree_pop_node] = @ \ {neighbor}],
                        g, iter, i + 1)

\* The loop of lines 172-175 over the neighbors of pop_node, in the order iter.
RECURSIVE demote_loop(_, _, _, _)
demote_loop(sets, g, iter, i) ==
    IF i > Len(iter) THEN [sets |-> sets, raised |-> FALSE]
    ELSE IF iter[i] \notin DOMAIN g
         THEN [sets |-> sets, raised |-> TRUE]
         ELSE LET neighbor == iter[i]
                  degree_pop_node == Cardinality(g[neighbor])
                  lower == BucketIndex(sets, degree_pop_node - 1)
              IN IF \/ degree_pop_node \notin DOMAIN sets
                    \/ neighbor \notin sets[degree_pop_node]
                    \/ lower \notin DOMAIN sets
                 THEN [sets |-> sets, raised |-> TRUE]
                 ELSE demote_loop(
                        [k \in DOMAIN sets |->
                           IF k = lower THEN (sets[k] \ {neighbor}) \cup {neighbor}
                           ELSE IF k = degree_pop_node THEN sets[k] \ {neighbor}
                           ELSE sets[k]],
                        g, iter, i + 1)

CallFastTargetedOrder ==
    /\ CanCall("fast_targeted_order")
    /\ LET c == copy_graph(ugraph, heap)
           g == GraphView(c.graph, c.heap)
       IN IF \E nd \in DOMAIN g : Cardinality(g[nd]) >= Cardinality(DOMAIN g)
          THEN /\ Finish("fast_targeted_order", "raised", <<>>, c.heap)
          ELSE /\ graph' = c.graph
               /\ heap' = c.heap
               /\ degree_sets' = initial_degree_sets(g)
               /\ degree' = Cardinality(DOMAIN g)
               /\ drained' = 0
               /\ seq' = <<>>
               /\ pc' = "fast_for"
               /\ status' = [status EXCEPT !["fast_targeted_order"] = "running"]
               /\ UNCHANGED <<graph_keys, attack_order, idx, ranking, nodes, components,
                              start_node, myqueue, visited, result>>
    /\ UNCHANGED frame

\* `for degree in reversed(range(len(degree_sets)))` takes its next value.
FastForNext ==
    /\ pc = "fast_for"
    /\ degree > 0
    /\ degree' = degree - 1
    /\ drained' = 0
    /\ pc' = "fast_while"
    /\ UNCHANGED <<heap, status, graph, graph_keys, seq, degree_sets, attack_order, idx,
                   ranking, nodes, components, start_node, myqueue, visited, result>>
    /\ UNCHANGED frame

\* One iteration of `while nodes`: lines 171-177.
FastPop ==
    /\ pc = "fast_while"
    /\ degree_sets[degree] # {}
    /\ \E pop_node \in degree_sets[degree] :
         \E iter \in DeleteOrders(graph, heap, pop_node) :
           LET popped == [degree_sets EXCEPT ![degree] = @ \ {pop_node}]
               d == IF pop_node \in DOMAIN graph
                    THEN demote_loop(popped, Working, iter, 1)
                    ELSE [sets |-> popped, raised |-> TRUE]
               r == delete_node(graph, heap, pop_node, iter)
           IN IF d.raised \/ r.raised
              THEN Finish("fast_targeted_order", "raised", <<>>, r.heap)
              ELSE /\ degree_sets' = d.sets
                   /\ seq' = Append(seq, pop_node)
                   /\ graph' = r.ugraph
                   /\ heap' = Collect(r.heap, Refs(ugraph) \cup Refs(r.ugraph))
                   /\ drained' = drained + 1
                   /\ UNCHANGED <<pc, status, graph_keys, degree, attack_order, idx,
                                  ranking, nodes, components, start_node, myqueue,
                                  visited, result>>
    /\ UNCHANGED frame

\* `while nodes` finds the bucket empty: the iteration of the for loop ends.
FastWhileExit ==
    /\ pc = "fast_while"
    /\ degree_sets[degree] = {}
    /\ pc' = "fast_for"
    /\ UNCHANGED <<heap, status, graph, graph_keys, seq, degree_sets, degree, drained,
                   attack_order, idx, ranking, nodes, components, start_node, myqueue,
                   visited, result>>
    /\ UNCHANGED frame

FastReturn ==
    /\ pc = "fast_for"
    /\ degree = 0
    /\ Finish("fast_targeted_order", "returned", seq, heap)
    /\ UNCHANGED frame

\* compute_resilience, largest_cc_size, cc_visited, bfs_visited

\* The attack orders tried: every list of at most MaxNodes identifiers,
\* repeated and absent nodes included.
AttackOrders == UNION {[1 .. n -> NodeIds] : n \in 0 .. MaxNodes}

RECURSIVE SeqMax(_, _)
SeqMax(lens, i) ==
    IF i > Len(lens) THEN 0
    ELSE LET rest == SeqMax(lens, i + 1) IN IF lens[i] > rest THEN lens[i] ELSE rest

RECURSIVE SeqMin(_, _)
SeqMin(lens, i) ==
    IF i = Len(lens) THEN lens[i]
    ELSE LET rest == SeqMin(lens, i + 1) IN IF lens[i] < rest THEN lens[i] ELSE rest

\* largest_of with min in place of max.
largest_of_smallest(comps) ==
    IF comps = <<>> THEN 0
    ELSE SeqMin([i \in 1 .. Len(comps) |-> Cardinality(comps[i])], 1)

\* len(max(components, key=len)) if components else 0
largest_of(comps) ==
    IF comps = <<>> THEN 0
    ELSE SeqMax([i \in 1 .. Len(comps) |-> Cardinality(comps[i])], 1)

\* bfs_loop without line 73: a neighbor is marked visited but never enqueued.
RECURSIVE bfs_loop_shallow(_, _, _, _)
bfs_loop_shallow(queue, seen, iter, i) ==
    IF i > Len(iter) THEN [myqueue |-> queue, visited |-> seen]
    ELSE IF iter[i] \notin Range(seen)
         THEN bfs_loop_shallow(queue, Append(seen, iter[i]), iter, i + 1)
         ELSE bfs_loop_shallow(queue, seen, iter, i + 1)

\* bfs_loop testing `neighbor not in myqueue` instead of `not in visited`.
RECURSIVE bfs_loop_requeue(_, _, _, _)
bfs_loop_requeue(queue, seen, iter, i) ==
    IF i > Len(iter) THEN [myqueue |-> queue, visited |-> seen]
    ELSE IF iter[i] \notin Range(queue)
         THEN bfs_loop_requeue(Append(queue, iter[i]), Append(seen, iter[i]), iter, i + 1)
         ELSE bfs_loop_requeue(queue, seen, iter, i + 1)

\* The loop of lines 71-74 over the neighbors of node, in the order iter.
RECURSIVE bfs_loop(_, _, _, _)
bfs_loop(queue, seen, iter, i) ==
    IF i > Len(iter) THEN [myqueue |-> queue, visited |-> seen]
    ELSE IF iter[i] \notin Range(seen)
         THEN bfs_loop(Append(queue, iter[i]), Append(seen, iter[i]), iter, i + 1)
         ELSE bfs_loop(queue, seen, iter, i + 1)

\* cc_visited begins: lines 85-86.
StartComponents(g) ==
    /\ nodes' = DOMAIN g
    /\ components' = <<>>
    /\ start_node' = 0
    /\ myqueue' = <<>>
    /\ visited' = <<>>
    /\ pc' = "cc_while"

CallComputeResilience ==
    /\ CanCall("compute_resilience")
    /\ \E order \in AttackOrders : attack_order' = order
    /\ LET c == copy_graph(ugraph, heap) IN
         /\ graph' = c.graph
         /\ heap' = c.heap
         /\ StartComponents(c.graph)
    /\ idx' = 0
    /\ ranking' = <<>>
    /\ status' = [status EXCEPT !["compute_resilience"] = "running"]
    /\ UNCHANGED <<graph_keys, seq, degree_sets, degree, drained, result>>
    /\ UNCHANGED frame

\* One iteration of `while nodes` up to the call of bfs_visited: lines 87-89, 65-68.
ComponentPop ==
    /\ pc = "cc_while"
    /\ nodes # {}
    /\ \E s \in nodes :
         /\ start_node' = s
         /\ nodes' = nodes \ {s}
         /\ myqueue' = <<s>>
         /\ visited' = <<s>>
    /\ pc' = "bfs_while"
    /\ UNCHANGED <<heap, status, graph, graph_keys, seq, degree_sets, degree, drained,
                   attack_order, idx, ranking, components, result>>
    /\ UNCHANGED frame

\* One iteration of `while myqueue`: lines 70-74.
BfsStep ==
    /\ pc = "bfs_while"
    /\ myqueue # <<>>
    /\ LET node == Head(myqueue) IN
         IF node \notin DOMAIN graph
         THEN Finish(Running, "raised", <<>>, heap)
         ELSE /\ \E iter \in Enumerations(heap[graph[node]]) :
                   LET b == bfs_loop(Tail(myqueue), visited, iter, 1) IN
                     /\ myqueue' = b.myqueue
                     /\ visited' = b.visited
              /\ UNCHANGED <<heap, pc, status, graph, graph_keys, seq, degree_sets, degree,
                             drained, attack_order, idx, ranking, nodes, components,
                             start_node, result>>
    /\ UNCHANGED frame

\* bfs_visited returns set(visited); cc_visited records it: lines 75, 90-92.
BfsReturn ==
    /\ pc = "bfs_while"
    /\ myqueue = <<>>
    /\ components' = Append(components, Range(visited))
    /\ nodes' = nodes \ Range(visited)
    /\ pc' = "cc_while"
    /\ UNCHANGED <<heap, status, graph, graph_keys, seq, degree_sets, degree, drained,
                   attack_order, idx, ranking, start_node, myqueue, visited, result>>
    /\ UNCHANGED frame

\* largest_cc_size(ugraph) called by the caller: cc_visited reads the
\* caller's dict itself.
CallLargestCcSize ==
    /\ CanCall("largest_cc_size")
    /\ graph' = ugraph
    /\ StartComponents(ugraph)
    /\ status' = [status EXCEPT !["largest_cc_size"] = "running"]
    /\ UNCHANGED <<heap, graph_keys, seq, degree_sets, degree, drained, attack_order,
                   idx, ranking, result>>
    /\ UNCHANGED frame

\* cc_visited returns and largest_cc_size returns its value, which
\* compute_resilience appends to ranking: lines 93, 102-103, 120 and 123.
ComponentsReturn ==
    /\ pc = "cc_while"
    /\ nodes = {}
    /\ IF status["largest_cc_size"] = "running"
       THEN Finish("largest_cc_size", "returned", <<largest_of(components)>>, heap)
       ELSE /\ ranking' = Append(ranking, largest_of(components))
            /\ pc' = "resilience_for"
            /\ UNCHANGED <<heap, status, graph, graph_keys, seq, degree_sets, degree,
                           drained, attack_order, idx, nodes, components, start_node,
                           myqueue, visited, result>>
    /\ UNCHANGED frame

\* `for node in attack_order` takes its next node and deletes it: lines 121-122.
ResilienceStep ==
    /\ pc = "resilience_for"
    /\ idx < Len(attack_order)
    /\ LET node == attack_order[idx + 1] IN
         \E iter \in DeleteOrders(graph, heap, node) :
           LET r == delete_node(graph, heap, node, iter) IN
             IF r.raised
             THEN Finish("compute_resilience", "raised", <<>>, r.heap)
             ELSE /\ graph' = r.ugraph
                  /\ heap' = Collect(r.heap, Refs(ugraph) \cup Refs(r.ugraph))
                  /\ idx' = idx + 1
                  /\ StartComponents(r.ugraph)
                  /\ UNCHANGED <<status, graph_keys, seq, degree_sets, degree, drained,
                                 attack_order, ranking, result>>
    /\ UNCHANGED frame

ResilienceReturn ==
    /\ pc = "resilience_for"
    /\ idx = Len(attack_order)
    /\ Finish("compute_resilience", "returned", ranking, heap)
    /\ UNCHANGED frame

Next ==
    \/ CallTargetedOrder \/ TargetedOrderStep \/ TargetedOrderReturn
    \/ CallFastTargetedOrder \/ FastForNext \/ FastPop \/ FastWhileExit \/ FastReturn
    \/ CallComputeResilience \/ ComponentPop \/ BfsStep \/ BfsReturn
    \/ ComponentsReturn \/ ResilienceStep \/ ResilienceReturn
    \/ CallLargestCcSize

Spec == CallInit /\ [][Next]_vars

----------------------------------------------------------------------------
\* Graph theory, stated without reference to the code.

\* g with the nodes of S and their edges removed.
Without(g, S) == [nd \in (DOMAIN g) \ S |-> g[nd] \ S]

Deg(g, nd) == Cardinality(g[nd])

\* The first k entries of s, as a set.
Removed(s, k) == {s[i] : i \in 1 .. k}

NoDuplicates(s) == \A i, j \in DOMAIN s : s[i] = s[j] => i = j

IsPermutationOf(s, V) == Range(s) = V /\ NoDuplicates(s)

\* Every entry of s has, when its turn comes, the largest degree left in g.
MaxDegreeFirst(g, s) ==
    \A i \in DOMAIN s :
      LET h == Without(g, Removed(s, i - 1)) IN
        /\ s[i] \in DOMAIN h
        /\ \A nd \in DOMAIN h : Deg(h, nd) <= Deg(h, s[i])

\* The degree each entry of s has when its turn comes.
RemovalDegrees(g, s) ==
    [i \in DOMAIN s |->
       LET h == Without(g, Removed(s, i - 1)) IN
         IF s[i] \in DOMAIN h THEN Deg(h, s[i]) ELSE 0 - 1]

Occurrences(s, x) == Cardinality({i \in DOMAIN s : s[i] = x})

SameMultiset(s, t) == \A x \in Range(s) \cup Range(t) : Occurrences(s, x) = Occurrences(t, x)

RECURSIVE SeqSum(_, _)
SeqSum(s, i) == IF i > Len(s) THEN 0 ELSE s[i] + SeqSum(s, i + 1)

RECURSIVE Reachable(_, _)
Reachable(g, S) ==
    LET T == S \cup UNION {g[x] \cap DOMAIN g : x \in S \cap DOMAIN g} IN
      IF T = S THEN S ELSE Reachable(g, T)

ComponentOf(g, nd) == Reachable(g, {nd})

LargestComponentSize(g) ==
    IF DOMAIN g = {} THEN 0
    ELSE CHOOSE n \in 1 .. Cardinality(DOMAIN g) :
           /\ \E nd \in DOMAIN g : Cardinality(ComponentOf(g, nd)) = n
           /\ \A nd \in DOMAIN g : Cardinality(ComponentOf(g, nd)) <= n

EdgeCount(g) == Cardinality({e \in SUBSET DOMAIN g : \E a \in DOMAIN g : \E b \in g[a] : e = {a, b}})

Returned(f) == status[f] = "returned"

Raised(f) == status[f] = "raised"

----------------------------------------------------------------------------
\* C1: targeted_order removes at every step a node whose current degree is
\* the maximum degree among the nodes still present in its working copy,
\* whatever the enumeration order of the dict.
C1_TargetedRemovesMaxDegree ==
    /\ pc = "targeted_order" => MaxDegreeFirst(original, seq)
    /\ Returned("targeted_order") => MaxDegreeFirst(original, result["targeted_order"])

\* C2: fast_targeted_order never raises, keeps every remaining node in
\* exactly the bucket of its current degree at each loop boundary (the buckets
\* being indexed by 0 .. len(g)-1), removes at every step a node of maximum
\* current degree, and returns a permutation of the nodes.
C2_FastRemovesMaxDegree ==
    /\ ~Raised("fast_targeted_order")
    /\ pc \in {"fast_for", "fast_while"} =>
         /\ DOMAIN degree_sets = 0 .. (Cardinality(DOMAIN original) - 1)
         /\ \A k \in DOMAIN degree_sets :
              degree_sets[k] = {nd \in DOMAIN Working : Deg(Working, nd) = k}
         /\ MaxDegreeFirst(original, seq)
         /\ Working = Without(original, Range(seq))
    /\ Returned("fast_targeted_order") =>
         /\ MaxDegreeFirst(original, result["fast_targeted_order"])
         /\ IsPermutationOf(result["fast_targeted_order"], DOMAIN original)

\* fast_targeted_order has returned on a graph where a neighbor was demoted.
C2_Witness ==
    /\ Returned("fast_targeted_order")
    /\ Len(result["fast_targeted_order"]) >= 3
    /\ \E nd \in DOMAIN original : Deg(original, nd) >= 2

ValidAttack(order) == NoDuplicates(order) /\ Range(order) \subseteq DOMAIN original

\* C4: for an attack order of distinct nodes of g, compute_resilience returns
\* a list of length len(attack_order)+1 whose entry k is the size of the
\* largest connected component of g without the first k nodes of the order.
C4_ResilienceCurve ==
    ValidAttack(attack_order) =>
      /\ ~Raised("compute_resilience")
      /\ Returned("compute_resilience") =>
           /\ Len(result["compute_resilience"]) = Len(attack_order) + 1
           /\ \A k \in 0 .. Len(attack_order) :
                result["compute_resilience"][k + 1] =
                  LargestComponentSize(Without(original, Removed(attack_order, k)))

\* A curve was returned for an attack on every node of a connected graph.
C4_Witness ==
    /\ Returned("compute_resilience")
    /\ Len(attack_order) >= 3
    /\ Range(attack_order) = DOMAIN original
    /\ result["compute_resilience"][1] >= 3
    /\ result["compute_resilience"][Len(attack_order) + 1] = 0

\* C5: the working copy shares no set object with the caller's graph, and the
\* caller's graph has the same nodes and the same neighbor sets as before the
\* call, during and after each of the three calls, a failed one included.
C5_CallerGraphUnchanged ==
    /\ Store = original
    /\ pc \notin {"idle"} /\ status["largest_cc_size"] # "running" =>
         Refs(graph) \cap Refs(ugraph) = {}

\* compute_resilience raised on a repeated node after deleting it once.
C5_Witness ==
    /\ Raised("compute_resilience")
    /\ Len(attack_order) = 2
    /\ attack_order[1] = attack_order[2]
    /\ attack_order[1] \in DOMAIN original
    /\ original[attack_order[1]] # {}
    /\ Store = original

\* C6: when cc_visited returns, its components are pairwise disjoint, cover
\* the node set, have sizes summing to len(g), and each is the set of nodes
\* reachable from any of its members, whichever start nodes were popped.
C6_ComponentsPartition ==
    pc = "resilience_for" =>
      /\ \A i, j \in DOMAIN components : i # j => components[i] \cap components[j] = {}
      /\ UNION Range(components) = DOMAIN Working
      /\ SeqSum([i \in DOMAIN components |-> Cardinality(components[i])], 1)
           = Cardinality(DOMAIN Working)
      /\ \A i \in DOMAIN components :
           \A nd \in components[i] : components[i] = ComponentOf(Working, nd)

\* cc_visited returned two components, one of them with an edge.
C6_Witness ==
    /\ pc = "resilience_for"
    /\ Len(components) >= 2
    /\ \E i \in DOMAIN components : Cardinality(components[i]) >= 2

----------------------------------------------------------------------------
\* Termination of targeted_order, fast_targeted_order and of cc_visited and
\* bfs_visited under largest_cc_size.  A call, once made, runs to completion:
\* every step of a running call is eventually taken.  The caller need not
\* make any call.

Steps ==
    \/ TargetedOrderStep \/ TargetedOrderReturn
    \/ FastForNext \/ FastPop \/ FastWhileExit \/ FastReturn
    \/ ComponentPop \/ BfsStep \/ BfsReturn \/ ComponentsReturn

LoopsNext ==
    \/ CallTargetedOrder \/ TargetedOrderStep \/ TargetedOrderReturn
    \/ CallFastTargetedOrder \/ FastForNext \/ FastPop \/ FastWhileExit \/ FastReturn
    \/ CallLargestCcSize \/ ComponentPop \/ BfsStep \/ BfsReturn \/ ComponentsReturn

FairSpec == CallInit /\ [][LoopsNext]_vars /\ WF_vars(Steps)

\* bfs_visited has enqueued no node twice and only nodes reachable from
\* start_node; when the queue is empty it has enqueued all of them.
BfsEnqueuesOnce ==
    pc = "bfs_while" =>
      /\ NoDuplicates(visited)
      /\ Range(visited) \subseteq ComponentOf(Working, start_node)
      /\ myqueue = <<>> => Range(visited) = ComponentOf(Working, start_node)

\* No loop has made more removals than the graph has nodes.
RemovalsBounded ==
    /\ pc \in {"targeted_order", "fast_for", "fast_while"} =>
         Len(seq) + Cardinality(DOMAIN graph) = Cardinality(DOMAIN original)
    /\ pc \in {"cc_while", "bfs_while"} =>
         Len(components) + Cardinality(nodes) <= Cardinality(DOMAIN graph)

\* An iteration of `while nodes` of cc_visited, of `while graph` of
\* targeted_order and of `while nodes` of fast_targeted_order removes a node.
WhileIterationRemoves ==
    /\ (pc = "cc_while" /\ pc' = "bfs_while") =>
         (nodes' \subseteq nodes /\ nodes' # nodes)
    /\ (pc = "bfs_while" /\ pc' = "cc_while") => nodes' \subseteq nodes
    /\ (pc = "targeted_order" /\ pc' = "targeted_order") =>
         (DOMAIN graph' \subseteq DOMAIN graph /\ DOMAIN graph' # DOMAIN graph)
    /\ (pc = "fast_while" /\ pc' = "fast_while") =>
         (DOMAIN graph' \subseteq DOMAIN graph /\ DOMAIN graph' # DOMAIN graph)

\* An iteration of `for degree in ...` of fast_targeted_order removes a node.
ForIterationRemoves == (pc = "fast_while" /\ pc' = "fast_for") => drained >= 1

\* The for loop of fast_targeted_order takes each bucket index once.
ForLoopBounded ==
    pc \in {"fast_for", "fast_while"} =>
      (degree \in 0 .. Cardinality(DOMAIN original) /\ drained <= Len(seq))

Terminates == (pc # "idle") ~> (pc = "idle")

\* C10 as stated: the four functions terminate, bfs_visited enqueues each
\* reachable node exactly once, and each iteration of the outer loops of
\* cc_visited, targeted_order and fast_targeted_order removes at least one
\* node, so that the loops end after at most len(graph) removals.
C10_EveryOuterIterationRemoves ==
    /\ []BfsEnqueuesOnce
    /\ []RemovalsBounded
    /\ [][WhileIterationRemoves /\ ForIterationRemoves]_vars
    /\ Terminates

\* C10 amended: as stated, except that in fast_targeted_order it is each
\* iteration of the inner `while nodes` loop that removes a node; the outer
\* for loop runs once per bucket, len(graph) times, and an iteration that
\* finds its bucket empty removes none.
C10_LoopsShrinkAndTerminate ==
    /\ []BfsEnqueuesOnce
    /\ []RemovalsBounded
    /\ []ForLoopBounded
    /\ [][WhileIterationRemoves]_vars
    /\ Terminates

\* fast_targeted_order is leaving an iteration of its for loop in which it
\* removed nothing, after having removed a node in an earlier one.
C10_Witness ==
    /\ pc = "fast_while"
    /\ degree_sets[degree] = {}
    /\ drained = 0
    /\ Len(seq) >= 1

----------------------------------------------------------------------------
\* dpa_algorithm ("degree distribution/tools.py") and upa_algorithm ("graph
\* resilience/tools.py").  The list node_numbers is read only by
\* random.sample, which draws positions: it is kept as the number of copies
\* of each node.

\* make_complete_graph without `if neighbor != node`.
make_complete_graph_with_loops(num_nodes) ==
    [node \in 0 .. (num_nodes - 1) |-> 0 .. (num_nodes - 1)]

\* make_complete_dgraph / make_complete_ugraph
make_complete_graph(num_nodes) ==
    [node \in 0 .. (num_nodes - 1) |-> (0 .. (num_nodes - 1)) \ {node}]

\* [node for node in range(initial_size) for _ in range(initial_size)]
initial_node_numbers(size) == [node \in 0 .. (size - 1) |-> size]

RECURSIVE CountSum(_, _)
CountSum(c, S) ==
    IF S = {} THEN 0
    ELSE LET x == CHOOSE y \in S : TRUE IN c[x] + CountSum(c, S \ {x})

\* len(node_numbers)
PoolSize(pool) == CountSum(pool, DOMAIN pool)

\* The outcomes of set(sample(node_numbers, k)): k positions of the list are
\* drawn without replacement, c[x] of them holding x.
sample_sets(pool, k) ==
    {{x \in DOMAIN pool : c[x] > 0} :
       c \in {d \in [DOMAIN pool -> 0 .. k] :
                /\ \A x \in DOMAIN pool : d[x] <= pool[x]
                /\ CountSum(d, DOMAIN pool) = k}}

\* node_numbers.extend(list(neighbors)); node_numbers.append(new_node)
extend_pool(pool, neighbors, node) ==
    [x \in (DOMAIN pool) \cup {node} |->
       (IF x \in DOMAIN pool THEN pool[x] ELSE 0)
       + (IF x \in neighbors THEN 1 ELSE 0)
       + (IF x = node THEN 1 ELSE 0)]

Sizes == 0 .. MaxSize

AttachmentInit ==
    /\ \E alg \in {"dpa", "upa"}, m \in Sizes, n \in Sizes :
         /\ algorithm = alg
         /\ initial_size = m
         /\ end_size = n
         /\ new_node = m
         /\ node_numbers = initial_node_numbers(m)
         /\ IF alg = "dpa"
            THEN dpa_graph = make_complete_graph(m) /\ StoreOf(EmptyMap)
            ELSE dpa_graph = EmptyMap /\ StoreOf(make_complete_graph(m))
    /\ failed = FALSE
    /\ call = NoCall
    /\ pc = "grow"
    /\ status = [f \in {} |-> "new"]
    /\ graph = EmptyMap /\ graph_keys = <<>> /\ seq = <<>>
    /\ degree_sets = <<>> /\ degree = 0 /\ drained = 0
    /\ attack_order = <<>> /\ idx = 0 /\ ranking = <<>>
    /\ nodes = {} /\ components = <<>> /\ start_node = 0
    /\ myqueue = <<>> /\ visited = <<>>
    /\ result = [f \in {} |-> <<>>]
    /\ original = EmptyMap

attachmentFrame == <<failed, call, status, graph, graph_keys, seq, degree_sets, degree,
                     drained, attack_order, idx, ranking, nodes, components, start_node,
                     myqueue, visited, result, original, algorithm, initial_size, end_size>>

\* One iteration of the growth loop of dpa_algorithm: lines 105-117.
DpaStep ==
    /\ algorithm = "dpa"
    /\ pc = "grow"
    /\ new_node < end_size
    /\ IF initial_size > PoolSize(node_numbers)
       THEN /\ pc' = "raised"
            /\ UNCHANGED <<node_numbers, dpa_graph, new_node>>
       ELSE /\ \E neighbors \in sample_sets(node_numbers, initial_size) :
                 /\ node_numbers' = extend_pool(node_numbers, neighbors, new_node)
                 /\ dpa_graph' = Put(dpa_graph, new_node, neighbors)
            /\ new_node' = new_node + 1
            /\ pc' = pc
    /\ UNCHANGED <<ugraph, heap>>
    /\ UNCHANGED attachmentFrame

DpaReturn ==
    /\ algorithm = "dpa"
    /\ pc = "grow"
    /\ new_node >= end_size
    /\ pc' = "done"
    /\ UNCHANGED <<ugraph, heap, node_numbers, dpa_graph, new_node>>
    /\ UNCHANGED attachmentFrame

\* One iteration of the growth loop of upa_algorithm: lines 216-228.
UpaStep ==
    /\ algorithm = "upa"
    /\ pc = "grow"
    /\ new_node < end_size
    /\ IF initial_size > PoolSize(node_numbers)
       THEN /\ pc' = "raised"
            /\ UNCHANGED <<node_numbers, ugraph, heap, new_node>>
       ELSE \E neighbors \in sample_sets(node_numbers, initial_size) :
              \E iter \in Enumerations(neighbors) :
                LET r == add_node(ugraph, heap, new_node, new_node, neighbors, iter) IN
                  /\ node_numbers' = extend_pool(node_numbers, neighbors, new_node)
                  /\ ugraph' = r.ugraph
                  /\ heap' = r.heap
                  /\ new_node' = new_node + 1
                  /\ pc' = IF r.raised THEN "raised" ELSE pc
    /\ UNCHANGED dpa_graph
    /\ UNCHANGED attachmentFrame

UpaReturn ==
    /\ algorithm = "upa"
    /\ pc = "grow"
    /\ new_node >= end_size
    /\ pc' = "done"
    /\ UNCHANGED <<ugraph, heap, node_numbers, dpa_graph, new_node>>
    /\ UNCHANGED attachmentFrame

AttachmentNext == DpaStep \/ DpaReturn \/ UpaStep \/ UpaReturn

SpecAttachment == AttachmentInit /\ [][AttachmentNext]_vars

\* The graph built so far.
Built == IF algorithm = "dpa" THEN dpa_graph ELSE Store

InDegree(g, nd) == Cardinality({a \in DOMAIN g : nd \in g[a]})

ValidSizes == 0 < initial_size /\ initial_size <= end_size

\* C8: for 0 < m <= n, whatever is sampled, the algorithms never raise, the
\* pool holds at least m entries at every step, and the graph returned has
\* exactly the nodes 0..n-1, its first m nodes pairwise adjacent, no
\* self-loop, and for every node v >= m between 1 and m neighbors smaller
\* than v: all of v's out-set in DPA, and in UPA, where the graph is also
\* symmetric, all of v's neighbors that are not later nodes.
C8_AttachmentShape ==
    ValidSizes =>
      /\ pc # "raised"
      /\ pc = "grow" => PoolSize(node_numbers) >= initial_size
      /\ pc = "done" =>
           /\ DOMAIN Built = 0 .. (end_size - 1)
           /\ \A a, b \in 0 .. (initial_size - 1) : a # b => b \in Built[a]
           /\ NoSelfLoops(Built)
           /\ Closed(Built)
           /\ \A v \in initial_size .. (end_size - 1) :
                LET lower == {x \in Built[v] : x < v} IN
                  /\ Cardinality(lower) >= 1
                  /\ Cardinality(lower) <= initial_size
                  /\ algorithm = "dpa" => Built[v] = lower
           /\ algorithm = "upa" => IsSymmetric(Built)

\* A run with 2 <= m < n - 1 has returned a graph in which an added node has
\* fewer than m neighbors: two of the entries drawn were the same node.
C8_Witness ==
    /\ ValidSizes /\ pc = "done"
    /\ initial_size >= 2 /\ end_size >= initial_size + 2
    /\ \E v \in initial_size .. (end_size - 1) :
         Cardinality({x \in Built[v] : x < v}) < initial_size

\* C9: at the start of every iteration of the growth loop and on return,
\* the pool holds every node of the graph built so far exactly degree+1
\* times: in-degree in DPA, degree in UPA.
C9_PoolHoldsDegreePlusOne ==
    (ValidSizes /\ pc \in {"grow", "done"}) =>
      /\ DOMAIN node_numbers = DOMAIN Built
      /\ \A nd \in DOMAIN Built :
           node_numbers[nd] =
             1 + (IF algorithm = "dpa" THEN InDegree(Built, nd) ELSE Deg(Built, nd))

====
